---- MODULE Spec2Model ----
(***************************************************************************)
(* Model of the in-memory file system of src/src/lib.rs.                   *)
(*                                                                         *)
(* A string is a sequence of one-character strings, so that splitting a    *)
(* path on '/' is computed and not assumed.  The tree owned by             *)
(* FileSystem.root is a function from key sequences (the keys of the       *)
(* nested HashMaps on the way from the root) to nodes; <<>> is the root.   *)
(* Timestamps (SystemTime) are left out: no operation reads them.          *)
(***************************************************************************)
EXTENDS Integers, Sequences, FiniteSets, Bags, TLC

VARIABLE tree

vars == <<tree>>

(* ------------------------------ bounds --------------------------------- *)
MaxNodes == 2
MaxLen == 1

(* ------------------------------ strings -------------------------------- *)
SEP == "/"
Names == {<<"a">>, <<"b">>}
Bytes == {1}

RECURSIVE SeqsUpTo(_, _)
SeqsUpTo(S, n) ==
    IF n = 0 THEN {<<>>}
    ELSE LET shorter == SeqsUpTo(S, n - 1)
         IN  shorter \cup {Append(s, x) : s \in shorter, x \in S}

(* "", "/", "/a", "/b", "/a/a", "/b/a", "a//b/" *)
PathInputs ==
    {<<>>, <<SEP>>, <<SEP, "a">>, <<SEP, "b">>,
     <<SEP, "a", SEP, "a">>, <<SEP, "b", SEP, "a">>,
     <<"a", SEP, SEP, "b", SEP>>}

NewNames == Names \cup {<<>>, <<"a", SEP, "b">>}

Contents == SeqsUpTo(Bytes, MaxLen)

None == [some |-> FALSE, v |-> <<>>]
Some(c) == [some |-> TRUE, v |-> c]
OptContents == {None} \cup {Some(c) : c \in Contents}

unwrap_or_default(o) == IF o.some THEN o.v ELSE <<>>

(* path.split('/').filter(|p| !p.is_empty()).collect() *)
RECURSIVE split_filter(_, _, _)
split_filter(s, cur, acc) ==
    IF s = <<>>
    THEN IF cur = <<>> THEN acc ELSE Append(acc, cur)
    ELSE IF Head(s) = SEP
         THEN split_filter(Tail(s), <<>>, IF cur = <<>> THEN acc ELSE Append(acc, cur))
         ELSE split_filter(Tail(s), Append(cur, Head(s)), acc)

split(path) == split_filter(path, <<>>, <<>>)

Front(s) == SubSeq(s, 1, Len(s) - 1)
Last(s) == s[Len(s)]

(* ------------------------------- nodes --------------------------------- *)
Permissions(r, w, x) == [read |-> r, write |-> w, execute |-> x]

PermissionSets == {Permissions(TRUE, TRUE, FALSE), Permissions(TRUE, FALSE, FALSE)}

(* the metadata of the root, mime_type "directory", given to every node *)
Metadata_of_root ==
    [size |-> 0, permissions |-> Permissions(TRUE, TRUE, FALSE),
     mime_type |-> "directory", tags |-> <<>>]

Metadata_default ==
    [size |-> 0, permissions |-> Permissions(TRUE, TRUE, FALSE),
     mime_type |-> "text/plain", tags |-> <<>>]

root_metadata ==
    [size |-> 0, permissions |-> Permissions(TRUE, TRUE, FALSE),
     mime_type |-> "directory", tags |-> <<>>]

File(name, content, metadata) ==
    [kind |-> "File", name |-> name, content |-> content, metadata |-> metadata]

Directory(name, metadata) ==
    [kind |-> "Directory", name |-> name, content |-> <<>>, metadata |-> metadata]

new == (<<>> :> Directory(<<SEP>>, root_metadata))

(* ------------------------- the nested HashMaps ------------------------- *)
IsPrefix(p, q) == Len(p) <= Len(q) /\ SubSeq(q, 1, Len(p)) = p

Subtree(t, p) == {q \in DOMAIN t : IsPrefix(p, q)}

(* dir.nodes.keys() of the directory stored at d *)
Keys(t, d) == {Last(q) : q \in {r \in DOMAIN t : Len(r) = Len(d) + 1 /\ IsPrefix(d, r)}}

contains_key(t, d, name) == Append(d, name) \in DOMAIN t

(* the node stored at p with everything it owns, as a value of its own *)
Detach(t, p) ==
    [r \in {SubSeq(q, Len(p) + 1, Len(q)) : q \in Subtree(t, p)} |-> t[p \o r]]

(* HashMap::remove of the entry at p: the node and all it owns go *)
remove(t, p) == [q \in DOMAIN t \ Subtree(t, p) |-> t[q]]

(* HashMap::insert of the node value n at p: a previous entry is replaced *)
insert(t, p, n) ==
    LET base == remove(t, p)
    IN  [q \in DOMAIN base \cup {p \o r : r \in DOMAIN n} |->
            IF IsPrefix(p, q) THEN n[SubSeq(q, Len(p) + 1, Len(q))] ELSE base[q]]

(* ------------------------------ results -------------------------------- *)
Ok == [ok |-> TRUE, err |-> "", bytes |-> <<>>, names |-> {}]
OkBytes(b) == [ok |-> TRUE, err |-> "", bytes |-> b, names |-> {}]
OkNames(n) == [ok |-> TRUE, err |-> "", bytes |-> <<>>, names |-> n]
Err(msg) == [ok |-> FALSE, err |-> msg, bytes |-> <<>>, names |-> {}]

(* ------------------------------ resolution ----------------------------- *)
RECURSIVE navigate_from(_, _, _)
navigate_from(t, current, parts) ==
    IF parts = <<>>
    THEN [ok |-> TRUE, err |-> "", dir |-> current]
    ELSE LET next == Append(current, Head(parts))
         IN  IF next \in DOMAIN t /\ t[next].kind = "Directory"
             THEN navigate_from(t, next, Tail(parts))
             ELSE [ok |-> FALSE, err |-> "Directory not found.", dir |-> <<>>]

navigate_to_directory(t, parts) == navigate_from(t, <<>>, parts)

(* The directory the caller gets is the one navigation reached, read as   *)
(* a value: callers that change it change their own copy.                  *)
find_node(t, path) ==
    LET parts == split(path)
    IN  IF parts = <<>>
        THEN [ok |-> FALSE, err |-> "Invalid path.", dir |-> <<>>, filename |-> <<>>]
        ELSE LET nav == navigate_to_directory(t, Front(parts))
             IN  IF ~nav.ok
                 THEN [ok |-> FALSE, err |-> nav.err, dir |-> <<>>, filename |-> <<>>]
                 ELSE [ok |-> TRUE, err |-> "", dir |-> nav.dir, filename |-> Last(parts)]

(* ------------------------------ operations ----------------------------- *)
(* create without the contains_key test: the insert replaces the entry *)
create_replacing(t, path, content, is_directory) ==
    LET parts == split(path)
    IN  IF parts = <<>>
        THEN [res |-> Err("Invalid path provided."), tree |-> t]
        ELSE
        LET name == Last(parts)
            nav == navigate_to_directory(t, Front(parts))
        IN  IF ~nav.ok THEN [res |-> Err(nav.err), tree |-> t]
            ELSE IF is_directory
            THEN [res |-> Ok,
                  tree |-> insert(t, Append(nav.dir, name),
                                  <<>> :> Directory(name, Metadata_default))]
            ELSE [res |-> Ok,
                  tree |-> insert(t, Append(nav.dir, name),
                                  <<>> :> File(name, unwrap_or_default(content),
                                               Metadata_default))]

(* create that stores an empty file whatever content it is given *)
create_empty(t, path, content, is_directory) ==
    LET parts == split(path)
    IN  IF parts = <<>>
        THEN [res |-> Err("Invalid path provided."), tree |-> t]
        ELSE
        LET name == Last(parts)
            nav == navigate_to_directory(t, Front(parts))
        IN  IF ~nav.ok THEN [res |-> Err(nav.err), tree |-> t]
            ELSE IF contains_key(t, nav.dir, name)
            THEN [res |-> Err("File or directory already exists."), tree |-> t]
            ELSE IF is_directory
            THEN [res |-> Ok,
                  tree |-> insert(t, Append(nav.dir, name),
                                  <<>> :> Directory(name, Metadata_default))]
            ELSE [res |-> Ok,
                  tree |-> insert(t, Append(nav.dir, name),
                                  <<>> :> File(name, <<>>, Metadata_default))]

create(t, path, content, is_directory) ==
    LET parts == split(path)
    IN  IF parts = <<>>
        THEN [res |-> Err("Invalid path provided."), tree |-> t]
        ELSE
        LET name == Last(parts)
            nav == navigate_to_directory(t, Front(parts))
        IN  IF ~nav.ok THEN [res |-> Err(nav.err), tree |-> t]
            ELSE IF contains_key(t, nav.dir, name)
            THEN [res |-> Err("File or directory already exists."), tree |-> t]
            ELSE IF is_directory
            THEN [res |-> Ok,
                  tree |-> insert(t, Append(nav.dir, name),
                                  <<>> :> Directory(name, Metadata_default))]
            ELSE [res |-> Ok,
                  tree |-> insert(t, Append(nav.dir, name),
                                  <<>> :> File(name, unwrap_or_default(content),
                                               Metadata_default))]

read_file(t, path) ==
    LET f == find_node(t, path)
    IN  IF ~f.ok THEN Err(f.err)
        ELSE IF ~contains_key(t, f.dir, f.filename) THEN Err("File not found.")
        ELSE LET node == t[Append(f.dir, f.filename)]
             IN  IF node.kind = "File" THEN OkBytes(node.content)
                 ELSE Err("Path points to a directory.")

(* The write goes to dir_node, a clone of the directory's map that is      *)
(* dropped at return: the stored tree is returned as it was.               *)
write_file(t, path, content, append) ==
    LET f == find_node(t, path)
    IN  IF ~f.ok THEN [res |-> Err(f.err), tree |-> t]
        ELSE IF ~contains_key(t, f.dir, f.filename)
        THEN [res |-> Err("File not found."), tree |-> t]
        ELSE
        LET p == Append(f.dir, f.filename)
            file == t[p]
            dir_node == [t EXCEPT ![p].content =
                            IF append THEN file.content \o content ELSE content]
        IN  IF file.kind = "File"
            THEN [res |-> Ok, tree |-> t]
            ELSE [res |-> Err("Path points to a directory."), tree |-> t]

list_directory(t, path) ==
    LET f == find_node(t, path)
    IN  IF ~f.ok THEN Err(f.err) ELSE OkNames(Keys(t, f.dir))

(* nodes.remove(name) runs before the emptiness test *)
delete(t, path) ==
    LET parts == split(path)
    IN  IF Len(parts) < 1
        THEN [res |-> Err("Invalid path provided."), tree |-> t]
        ELSE
        LET name == Last(parts)
            nav == navigate_to_directory(t, Front(parts))
        IN  IF ~nav.ok THEN [res |-> Err(nav.err), tree |-> t]
            ELSE IF contains_key(t, nav.dir, name)
            THEN LET p == Append(nav.dir, name)
                     node == t[p]
                     removed == remove(t, p)
                 IN  IF node.kind = "Directory" /\ Keys(t, p) # {}
                     THEN [res |-> Err("Directory is not empty."), tree |-> removed]
                     ELSE [res |-> Ok, tree |-> removed]
            ELSE [res |-> Err("File or directory not found."), tree |-> t]

update_file(t, path, content, append) ==
    LET f == find_node(t, path)
    IN  IF ~f.ok THEN [res |-> Err(f.err), tree |-> t]
        ELSE IF contains_key(t, f.dir, f.filename)
                /\ t[Append(f.dir, f.filename)].kind = "File"
        THEN
        LET p == Append(f.dir, f.filename)
            file == t[p]
            dir_nodes == [t EXCEPT ![p].content =
                             IF append THEN file.content \o content ELSE content]
        IN  IF ~file.metadata.permissions.write
            THEN [res |-> Err("Write permission denied."), tree |-> t]
            ELSE [res |-> Ok, tree |-> t]
        ELSE [res |-> Err("File not found."), tree |-> t]

(* permissions are set on a node of dir.nodes.clone(), dropped at return *)
change_permissions(t, path, permissions) ==
    LET f == find_node(t, path)
    IN  IF ~f.ok THEN [res |-> Err(f.err), tree |-> t]
        ELSE IF contains_key(t, f.dir, f.filename)
        THEN LET p == Append(f.dir, f.filename)
                 clone == [t EXCEPT ![p].metadata.permissions = permissions]
             IN  [res |-> Ok, tree |-> t]
        ELSE [res |-> Err("File or directory not found."), tree |-> t]

(* rename that removes the old entry before it tests new_name *)
rename_remove_first(t, old_path, new_name) ==
    LET parts == split(old_path)
    IN  IF parts = <<>>
        THEN [res |-> Err("Invalid path provided."), tree |-> t]
        ELSE
        LET old_name == Last(parts)
            nav == navigate_to_directory(t, Front(parts))
        IN  IF ~nav.ok THEN [res |-> Err(nav.err), tree |-> t]
            ELSE IF ~contains_key(t, nav.dir, old_name)
            THEN [res |-> Err("File or directory not found."), tree |-> t]
            ELSE LET node == Detach(t, Append(nav.dir, old_name))
                     removed == remove(t, Append(nav.dir, old_name))
                 IN  IF contains_key(removed, nav.dir, new_name)
                     THEN [res |-> Err("A file or directory with the new name already exists."),
                           tree |-> removed]
                     ELSE [res |-> Ok,
                           tree |-> insert(removed, Append(nav.dir, new_name), node)]

rename(t, old_path, new_name) ==
    LET parts == split(old_path)
    IN  IF parts = <<>>
        THEN [res |-> Err("Invalid path provided."), tree |-> t]
        ELSE
        LET old_name == Last(parts)
            nav == navigate_to_directory(t, Front(parts))
        IN  IF ~nav.ok THEN [res |-> Err(nav.err), tree |-> t]
            ELSE IF ~contains_key(t, nav.dir, old_name)
            THEN [res |-> Err("File or directory not found."), tree |-> t]
            ELSE IF contains_key(t, nav.dir, new_name)
            THEN [res |-> Err("A file or directory with the new name already exists."),
                  tree |-> t]
            ELSE LET node == Detach(t, Append(nav.dir, old_name))
                 IN  [res |-> Ok,
                      tree |-> insert(remove(t, Append(nav.dir, old_name)),
                                      Append(nav.dir, new_name), node)]

(* copy that pops the last component of target_path before resolving it *)
copy_into_parent(t, source_path, target_path) ==
    LET source_parts == split(source_path)
        target_parts == split(target_path)
    IN  IF source_parts = <<>>
        THEN [res |-> Err("Invalid source path."), tree |-> t]
        ELSE
        LET file_name == Last(source_parts)
            f == find_node(t, source_path)
        IN  IF ~f.ok THEN [res |-> Err(f.err), tree |-> t]
            ELSE IF ~contains_key(t, f.dir, file_name)
            THEN [res |-> Err("Source file or directory not found."), tree |-> t]
            ELSE
            LET node_to_clone == Detach(t, Append(f.dir, file_name))
                nav == navigate_to_directory(t, Front(target_parts))
            IN  IF ~nav.ok THEN [res |-> Err(nav.err), tree |-> t]
                ELSE [res |-> Ok,
                      tree |-> insert(t, Append(nav.dir, file_name), node_to_clone)]

(* copy that clones the source node without the nodes it owns *)
copy_shallow(t, source_path, target_path) ==
    LET source_parts == split(source_path)
        target_parts == split(target_path)
    IN  IF source_parts = <<>>
        THEN [res |-> Err("Invalid source path."), tree |-> t]
        ELSE
        LET file_name == Last(source_parts)
            f == find_node(t, source_path)
        IN  IF ~f.ok THEN [res |-> Err(f.err), tree |-> t]
            ELSE IF ~contains_key(t, f.dir, file_name)
            THEN [res |-> Err("Source file or directory not found."), tree |-> t]
            ELSE
            LET node_to_clone == (<<>> :> t[Append(f.dir, file_name)])
                nav == navigate_to_directory(t, target_parts)
            IN  IF ~nav.ok THEN [res |-> Err(nav.err), tree |-> t]
                ELSE [res |-> Ok,
                      tree |-> insert(t, Append(nav.dir, file_name), node_to_clone)]

copy(t, source_path, target_path) ==
    LET source_parts == split(source_path)
        target_parts == split(target_path)
    IN  IF source_parts = <<>>
        THEN [res |-> Err("Invalid source path."), tree |-> t]
        ELSE
        LET file_name == Last(source_parts)
            f == find_node(t, source_path)
        IN  IF ~f.ok THEN [res |-> Err(f.err), tree |-> t]
            ELSE IF ~contains_key(t, f.dir, file_name)
            THEN [res |-> Err("Source file or directory not found."), tree |-> t]
            ELSE
            LET node_to_clone == Detach(t, Append(f.dir, file_name))
                nav == navigate_to_directory(t, target_parts)
            IN  IF ~nav.ok THEN [res |-> Err(nav.err), tree |-> t]
                ELSE [res |-> Ok,
                      tree |-> insert(t, Append(nav.dir, file_name), node_to_clone)]

(* format!("{}/{}", dir.name, file.name) *)
format(dir_name, file_name) == dir_name \o <<"/">> \o file_name

contains(tags, tag) == \E i \in 1..Len(tags) : tags[i] = tag

(* The searches push their strings in the iteration order of the HashMaps, *)
(* which is arbitrary: the result is kept as a bag, the Vec without its    *)
(* order.  todo is the part of dir.nodes the loop has still to visit.      *)
RECURSIVE search_by_tag_recursive(_, _, _, _)
search_by_tag_recursive(t, dir, todo, tag) ==
    IF todo = {} THEN EmptyBag
    ELSE LET name == CHOOSE k \in todo : TRUE
             node == t[Append(dir, name)]
             rest == search_by_tag_recursive(t, dir, todo \ {name}, tag)
         IN  IF node.kind = "File" /\ contains(node.metadata.tags, tag)
             THEN SetToBag({format(t[dir].name, node.name)}) (+) rest
             ELSE IF node.kind = "Directory"
             THEN search_by_tag_recursive(t, Append(dir, name),
                                          Keys(t, Append(dir, name)), tag) (+) rest
             ELSE rest

search_by_tag(t, tag) == search_by_tag_recursive(t, <<>>, Keys(t, <<>>), tag)

(* a search that looks at the entries of the root only *)
search_by_mime_type_recursive_flat(t, dir, todo, mime_type) ==
    LET hits == {k \in todo : /\ t[Append(dir, k)].kind = "File"
                              /\ t[Append(dir, k)].metadata.mime_type = mime_type}
    IN  [s \in {format(t[dir].name, t[Append(dir, k)].name) : k \in hits} |->
            Cardinality({k \in hits : format(t[dir].name, t[Append(dir, k)].name) = s})]

RECURSIVE search_by_mime_type_recursive(_, _, _, _)
search_by_mime_type_recursive(t, dir, todo, mime_type) ==
    IF todo = {} THEN EmptyBag
    ELSE LET name == CHOOSE k \in todo : TRUE
             node == t[Append(dir, name)]
             rest == search_by_mime_type_recursive(t, dir, todo \ {name}, mime_type)
         IN  IF node.kind = "File" /\ node.metadata.mime_type = mime_type
             THEN SetToBag({format(t[dir].name, node.name)}) (+) rest
             ELSE IF node.kind = "Directory"
             THEN search_by_mime_type_recursive(t, Append(dir, name),
                                                Keys(t, Append(dir, name)),
                                                mime_type) (+) rest
             ELSE rest

search_by_mime_type(t, mime_type) ==
    search_by_mime_type_recursive(t, <<>>, Keys(t, <<>>), mime_type)

TagInputs == {"important", "draft"}
MimeInputs == {"text/plain", "directory", "image/png"}

(* ------------------------------- actions ------------------------------- *)
NodeCount(t) == Cardinality(DOMAIN t) - 1

Init == tree = new

Create ==
    \E path \in PathInputs, content \in OptContents, is_directory \in BOOLEAN :
        LET r == create(tree, path, content, is_directory)
        IN  /\ NodeCount(r.tree) <= MaxNodes
            /\ tree' = r.tree

ReadFile ==
    \E path \in PathInputs :
        /\ read_file(tree, path).ok \in BOOLEAN
        /\ UNCHANGED tree

WriteFile ==
    \E path \in PathInputs, content \in Contents, append \in BOOLEAN :
        tree' = write_file(tree, path, content, append).tree

ListDirectory ==
    \E path \in PathInputs :
        /\ list_directory(tree, path).ok \in BOOLEAN
        /\ UNCHANGED tree

Delete ==
    \E path \in PathInputs :
        tree' = delete(tree, path).tree

UpdateFile ==
    \E path \in PathInputs, content \in Contents, append \in BOOLEAN :
        tree' = update_file(tree, path, content, append).tree

ChangePermissions ==
    \E path \in PathInputs, permissions \in PermissionSets :
        tree' = change_permissions(tree, path, permissions).tree

Rename ==
    \E old_path \in PathInputs, new_name \in NewNames :
        tree' = rename(tree, old_path, new_name).tree

Copy ==
    \E source_path \in PathInputs, target_path \in PathInputs :
        LET r == copy(tree, source_path, target_path)
        IN  /\ NodeCount(r.tree) <= MaxNodes
            /\ tree' = r.tree

SearchByTag ==
    \E tag \in TagInputs :
        /\ BagCardinality(search_by_tag(tree, tag)) >= 0
        /\ UNCHANGED tree

SearchByMimeType ==
    \E mime_type \in MimeInputs :
        /\ BagCardinality(search_by_mime_type(tree, mime_type)) >= 0
        /\ UNCHANGED tree

Next ==
    \/ Create
    \/ ReadFile
    \/ WriteFile
    \/ ListDirectory
    \/ Delete
    \/ UpdateFile
    \/ ChangePermissions
    \/ Rename
    \/ Copy
    \/ SearchByTag
    \/ SearchByMimeType

Spec == Init /\ [][Next]_vars

(* ------------------------- vocabulary of the claims -------------------- *)
(* the error classes of the specification, by the message the code returns *)
ErrorKind(msg) ==
    CASE msg \in {"Invalid path provided.", "Invalid path.", "Invalid source path."}
            -> "InvalidPath"
      [] msg \in {"Directory not found.", "File not found.",
                  "File or directory not found.",
                  "Source file or directory not found."}
            -> "NotFound"
      [] msg = "Path points to a directory." -> "IsADirectory"
      [] msg \in {"File or directory already exists.",
                  "A file or directory with the new name already exists."}
            -> "AlreadyExists"
      [] msg = "Directory is not empty." -> "DirectoryNotEmpty"
      [] msg = "Write permission denied." -> "PermissionDenied"
      [] OTHER -> "None"

Fails(res, kind) == ~res.ok /\ ErrorKind(res.err) = kind

Exists(t, parts) == parts \in DOMAIN t
IsFile(t, parts) == Exists(t, parts) /\ t[parts].kind = "File"
IsDirectory(t, parts) == Exists(t, parts) /\ t[parts].kind = "Directory"

(* the path string "/c1/c2/..." of a component sequence; "/" for the root *)
RECURSIVE Render(_)
Render(parts) ==
    IF parts = <<>> THEN <<>> ELSE <<SEP>> \o Head(parts) \o Render(Tail(parts))

PathOf(parts) == IF parts = <<>> THEN <<SEP>> ELSE Render(parts)

(* what read_file and list_directory can tell of the node at p, at every depth *)
Observed(t, p) ==
    LET n == Detach(t, p)
    IN  [r \in DOMAIN n |-> [kind |-> n[r].kind, content |-> n[r].content]]

(* ------------------------------- claims -------------------------------- *)

(* C1: after write_file(P, b, append = false) returns success on an        *)
(* existing file P, read_file(P) returns exactly b.                        *)
C1_WriteThenRead ==
    \A path \in PathInputs, b \in Contents :
        LET r == write_file(tree, path, b, FALSE)
        IN  r.res.ok => read_file(r.tree, path) = OkBytes(b)

(* C2: delete of a directory that has a child fails with DirectoryNotEmpty *)
(* and leaves the tree unchanged; delete of a directory whose children are *)
(* all gone succeeds and removes it.                                       *)
C2_DeleteDirectory ==
    \A path \in PathInputs :
        LET parts == split(path)
            r == delete(tree, path)
        IN  (parts # <<>> /\ IsDirectory(tree, parts)) =>
                IF Keys(tree, parts) # {}
                THEN Fails(r.res, "DirectoryNotEmpty") /\ r.tree = tree
                ELSE r.res.ok /\ ~Exists(r.tree, parts)

(* C3: once change_permissions(P, perms) with perms.write = false has      *)
(* succeeded on a file P, update_file(P, c, append) fails with             *)
(* PermissionDenied for every c and append, and write_file still succeeds. *)
C3_RevokedWrite ==
    \A path \in PathInputs, perms \in PermissionSets :
        LET parts == split(path)
            r == change_permissions(tree, path, perms)
        IN  (IsFile(tree, parts) /\ ~perms.write /\ r.res.ok) =>
                \A c \in Contents, append \in BOOLEAN :
                    /\ Fails(update_file(r.tree, path, c, append).res, "PermissionDenied")
                    /\ write_file(r.tree, path, c, append).res.ok

(* C4: create of a path that does not exist under a parent that resolves   *)
(* to a directory succeeds, and list_directory on the path of that parent  *)
(* then includes the leaf name (also when the parent is the root).         *)
C4_CreateThenList ==
    \A path \in PathInputs, content \in OptContents, is_directory \in BOOLEAN :
        LET parts == split(path)
            r == create(tree, path, content, is_directory)
            listing == list_directory(r.tree, PathOf(Front(parts)))
        IN  (parts # <<>> /\ ~Exists(tree, parts) /\ IsDirectory(tree, Front(parts))) =>
                /\ r.res.ok
                /\ listing.ok
                /\ Last(parts) \in listing.names

(* C5: create on a path that already exists, whatever its kind, the        *)
(* content and the is_directory flag, fails with AlreadyExists and leaves  *)
(* the tree as it was.                                                     *)
C5_CreateExisting ==
    \A path \in PathInputs, content \in OptContents, is_directory \in BOOLEAN :
        LET parts == split(path)
            r == create(tree, path, content, is_directory)
        IN  (parts # <<>> /\ Exists(tree, parts)) =>
                /\ r.res = Err("File or directory already exists.")
                /\ Fails(r.res, "AlreadyExists")
                /\ r.tree = tree

(* a directory that has a child exists, and create of a file over it fails *)
C5_Witness ==
    \E path \in PathInputs :
        /\ split(path) # <<>>
        /\ IsDirectory(tree, split(path))
        /\ Keys(tree, split(path)) # {}
        /\ Fails(create(tree, path, Some(<<1>>), FALSE).res, "AlreadyExists")

(* C6: after rename(old, new) succeeds, the path made of old's parent and  *)
(* new shows what old showed before (content, children at every depth),   *)
(* old resolves to NotFound, and every other entry is unchanged.           *)
C6_RenameMoves ==
    \A old_path \in PathInputs, new_name \in NewNames :
        LET parts == split(old_path)
            r == rename(tree, old_path, new_name)
            new_path == Render(Front(parts)) \o <<SEP>> \o new_name
            new_parts == split(new_path)
        IN  r.res.ok =>
                /\ Exists(r.tree, new_parts)
                /\ Observed(r.tree, new_parts) = Observed(tree, parts)
                /\ Fails(read_file(r.tree, old_path), "NotFound")
                /\ ~Exists(r.tree, parts)
                /\ remove(r.tree, new_parts) = remove(tree, parts)

(* C7: after write_file(P, b2, append = true) succeeds on a file holding   *)
(* b1, read_file(P) returns b1 \o b2; a second append b3 gives             *)
(* b1 \o b2 \o b3.                                                         *)
C7_AppendConcatenates ==
    \A path \in PathInputs, b2 \in Contents, b3 \in Contents :
        LET b1 == read_file(tree, path).bytes
            r == write_file(tree, path, b2, TRUE)
            r2 == write_file(r.tree, path, b3, TRUE)
        IN  r.res.ok =>
                /\ read_file(r.tree, path) = OkBytes(b1 \o b2)
                /\ r2.res.ok
                /\ read_file(r2.tree, path) = OkBytes(b1 \o b2 \o b3)

C9_NoSilentReplace ==
    /\ \A path \in PathInputs, content \in OptContents, is_directory \in BOOLEAN :
        LET parts == split(path)
            r == create(tree, path, content, is_directory)
        IN  (parts # <<>> /\ Exists(tree, parts)) =>
                ~r.res.ok /\ Detach(r.tree, parts) = Detach(tree, parts)
    /\ \A old_path \in PathInputs, new_name \in NewNames :
        LET parts == split(old_path)
            r == rename(tree, old_path, new_name)
            dest == Append(Front(parts), new_name)
        IN  (parts # <<>> /\ IsDirectory(tree, Front(parts)) /\ Exists(tree, dest)) =>
                ~r.res.ok /\ Detach(r.tree, dest) = Detach(tree, dest)
    /\ \A source_path \in PathInputs, target_path \in PathInputs :
        LET source_parts == split(source_path)
            target_parts == split(target_path)
            r == copy(tree, source_path, target_path)
            dest == Append(target_parts, Last(source_parts))
        IN  (/\ source_parts # <<>>
             /\ Exists(tree, source_parts)
             /\ IsDirectory(tree, target_parts)
             /\ Exists(tree, dest)) =>
                ~r.res.ok /\ Detach(r.tree, dest) = Detach(tree, dest)

(* C10: for a path of at least one component, list_directory(path)        *)
(* returns the child names of the directory at path itself, fails with     *)
(* NotFound when nothing is stored at path and with an IsADirectory-class  *)
(* error when a file is.                                                   *)
C10_ListsThePath ==
    \A path \in PathInputs :
        LET parts == split(path)
            listing == list_directory(tree, path)
        IN  parts # <<>> =>
                IF IsDirectory(tree, parts)
                THEN listing = OkNames(Keys(tree, parts))
                ELSE IF IsFile(tree, parts)
                THEN ~listing.ok
                     /\ ErrorKind(listing.err) \in {"IsADirectory", "NotADirectory"}
                ELSE Fails(listing, "NotFound")

(* the walk over dirparts stops at a component that is stored as a File *)
BlockedByFile(t, dirparts) ==
    \E i \in 1..Len(dirparts) :
        /\ \A j \in 1..(i - 1) : IsDirectory(t, SubSeq(dirparts, 1, j))
        /\ IsFile(t, SubSeq(dirparts, 1, i))

(* the walk over dirparts stops at a component that is not stored at all *)
BlockedByMissing(t, dirparts) ==
    \E i \in 1..Len(dirparts) :
        /\ \A j \in 1..(i - 1) : IsDirectory(t, SubSeq(dirparts, 1, j))
        /\ ~Exists(t, SubSeq(dirparts, 1, i))

(* C11: an operation whose parent path runs into a File fails with         *)
(* NotADirectory, one whose parent path runs into a missing component       *)
(* fails with NotFound, and the two error values differ (create, delete,   *)
(* rename, read_file and the target of copy).                              *)
C11_ResolutionErrorsDiffer ==
    \A p1 \in PathInputs, p2 \in PathInputs :
        LET d1 == Front(split(p1))
            d2 == Front(split(p2))
        IN  (/\ split(p1) # <<>> /\ split(p2) # <<>>
             /\ BlockedByFile(tree, d1)
             /\ BlockedByMissing(tree, d2)) =>
                /\ ~create(tree, p1, None, FALSE).res.ok
                /\ ~create(tree, p2, None, FALSE).res.ok
                /\ create(tree, p1, None, FALSE).res.err
                       # create(tree, p2, None, FALSE).res.err
                /\ delete(tree, p1).res.err # delete(tree, p2).res.err
                /\ read_file(tree, p1).err # read_file(tree, p2).err
                /\ \A n \in Names :
                       rename(tree, p1, n).res.err # rename(tree, p2, n).res.err

(* C12: in every reachable state, the name field of every node below the   *)
(* root equals the key under which its parent directory stores it.         *)
C12_NameIsKey ==
    \A p \in DOMAIN tree : p # <<>> => tree[p].name = Last(p)

(* C13: in every reachable state, every node below the root is reached by  *)
(* a path of non-empty components: no key is the empty string or contains  *)
(* the separator, so the path written from its keys splits back into them. *)
C13_KeysAreComponents ==
    \A p \in DOMAIN tree :
        /\ \A i \in 1..Len(p) :
              /\ p[i] # <<>>
              /\ \A k \in 1..Len(p[i]) : p[i][k] # SEP
        /\ split(PathOf(p)) = p

(* the File nodes of t that a search for mime_type has to report *)
FilesOfMime(t, mime_type) ==
    {p \in DOMAIN t : t[p].kind = "File" /\ t[p].metadata.mime_type = mime_type}

FilesOfTag(t, tag) ==
    {p \in DOMAIN t : t[p].kind = "File" /\ contains(t[p].metadata.tags, tag)}

(* the string a search reports for the file at p: the name of the          *)
(* directory that holds it, "/", the name of the file                      *)
Reported(t, p) == format(t[Front(p)].name, t[p].name)

(* the bag holds one string per file of files, and nothing else *)
OnePerFile(t, bag, files) ==
    /\ BagToSet(bag) = {Reported(t, p) : p \in files}
    /\ \A s \in BagToSet(bag) :
           CopiesIn(s, bag) = Cardinality({p \in files : Reported(t, p) = s})

(* t with the tag set of the file at p replaced, as the tags field allows *)
Tagged(t, p, tags) == [t EXCEPT ![p].metadata.tags = tags]

(* C14: search_by_mime_type(m) returns one string per File node of the     *)
(* whole tree whose MIME type is m, formed from the name of the directory  *)
(* holding the file, "/" and the name of the file, and no other string;    *)
(* search_by_tag does the same for the files whose tags contain the tag.   *)
C14_SearchReportsEveryFile ==
    /\ \A mime_type \in MimeInputs :
           OnePerFile(tree, search_by_mime_type(tree, mime_type),
                      FilesOfMime(tree, mime_type))
    /\ \A tag \in TagInputs :
           /\ OnePerFile(tree, search_by_tag(tree, tag), FilesOfTag(tree, tag))
           /\ \A p \in DOMAIN tree :
                  tree[p].kind = "File" =>
                      LET t == Tagged(tree, p, <<"draft", "important">>)
                      IN  /\ OnePerFile(t, search_by_tag(t, tag), FilesOfTag(t, tag))
                          /\ search_by_tag(t, "important")
                                 = SetToBag({Reported(tree, p)})

(* a file stored in a directory below the root is the one file the search  *)
(* for its MIME type reports, under the name of that directory             *)
C14_Witness ==
    \E q \in DOMAIN tree :
        /\ Len(q) = 2
        /\ tree[q].kind = "File"
        /\ search_by_mime_type(tree, "text/plain")
               = SetToBag({format(tree[Front(q)].name, tree[q].name)})
        /\ search_by_mime_type(tree, "directory") = EmptyBag

(* C15: after create(P, content, is_directory = false) succeeds,           *)
(* read_file(P) returns the content given, the empty sequence when none    *)
(* was given; after create(P, _, is_directory = true) succeeds, P is a     *)
(* directory without children and read_file(P) fails with IsADirectory.    *)
C15_CreateThenRead ==
    \A path \in PathInputs, content \in OptContents, is_directory \in BOOLEAN :
        LET parts == split(path)
            r == create(tree, path, content, is_directory)
        IN  r.res.ok =>
                IF is_directory
                THEN /\ IsDirectory(r.tree, parts)
                     /\ Keys(r.tree, parts) = {}
                     /\ Fails(read_file(r.tree, path), "IsADirectory")
                ELSE /\ IsFile(r.tree, parts)
                     /\ read_file(r.tree, path)
                            = OkBytes(IF content.some THEN content.v ELSE <<>>)

(* a file with content can be created below a directory, and one without   *)
(* content next to it                                                      *)
C15_Witness ==
    \E path \in PathInputs, other \in PathInputs :
        /\ Len(split(path)) = 2
        /\ path # other
        /\ create(tree, path, Some(<<1>>), FALSE).res.ok
        /\ read_file(create(tree, path, Some(<<1>>), FALSE).tree, path) = OkBytes(<<1>>)
        /\ create(tree, other, None, FALSE).res.ok
        /\ create(tree, other, None, TRUE).res.ok

(* neither entry lies at or below the other *)
Disjoint(p, q) == ~IsPrefix(p, q) /\ ~IsPrefix(q, p)

(* every create, delete, rename, write_file, update_file and               *)
(* change_permissions whose path lies at or below region leaves the entry  *)
(* at kept, in the tree t, equal to the node value                         *)
OpsInsideKeep(t, region, kept, value) ==
    \A path \in PathInputs :
        IsPrefix(region, split(path)) =>
            /\ \A content \in OptContents, is_directory \in BOOLEAN :
                   Detach(create(t, path, content, is_directory).tree, kept) = value
            /\ Detach(delete(t, path).tree, kept) = value
            /\ \A new_name \in NewNames :
                   Detach(rename(t, path, new_name).tree, kept) = value
            /\ \A content \in Contents, append \in BOOLEAN :
                   /\ Detach(write_file(t, path, content, append).tree, kept) = value
                   /\ Detach(update_file(t, path, content, append).tree, kept) = value
            /\ \A permissions \in PermissionSets :
                   Detach(change_permissions(t, path, permissions).tree, kept) = value

C17_CopyIntoItself ==
    \A source_path \in PathInputs, target_path \in PathInputs :
        LET source_parts == split(source_path)
            target_parts == split(target_path)
            r == copy(tree, source_path, target_path)
            dest == Append(target_parts, Last(source_parts))
        IN  (/\ source_parts # <<>>
             /\ IsDirectory(tree, source_parts)
             /\ IsPrefix(source_parts, target_parts)
             /\ IsDirectory(tree, target_parts)) =>
                /\ r.res.ok
                /\ IsFiniteSet(DOMAIN r.tree)
                /\ Detach(r.tree, dest) = Detach(tree, source_parts)
                /\ Detach(r.tree, dest \o SubSeq(dest, Len(source_parts) + 1, Len(dest)))
                       # Detach(r.tree, dest)
                /\ Cardinality(Keys(r.tree, target_parts))
                       = Cardinality(Keys(tree, target_parts)) + 1
                /\ \A k \in Keys(tree, target_parts) :
                       Detach(r.tree, Append(target_parts, k))
                           = Detach(tree, Append(target_parts, k))

(* C18: in every reachable state every File node has no tags and the MIME  *)
(* type "text/plain", so search_by_tag returns nothing for every tag and   *)
(* search_by_mime_type("text/plain") returns one entry per file.           *)
C18_DefaultMetadataOnly ==
    /\ \A p \in DOMAIN tree :
           tree[p].kind = "File" =>
               /\ tree[p].metadata.tags = <<>>
               /\ tree[p].metadata.mime_type = "text/plain"
    /\ \A tag \in TagInputs : search_by_tag(tree, tag) = EmptyBag
    /\ BagCardinality(search_by_mime_type(tree, "text/plain"))
           = Cardinality({p \in DOMAIN tree : tree[p].kind = "File"})

(* two files, one of them renamed or copied, are both reported *)
C18_Witness ==
    /\ Cardinality({p \in DOMAIN tree : tree[p].kind = "File"}) = 2
    /\ \E p \in DOMAIN tree : tree[p].kind = "File" /\ tree[p].name # Last(p)
    /\ BagCardinality(search_by_mime_type(tree, "text/plain")) = 2

(* C19: a call of create, rename, copy, write_file, update_file or         *)
(* change_permissions that returns an error leaves the tree as it was; a   *)
(* path of zero components given to create, delete or rename fails with    *)
(* InvalidPath without touching the tree; and the root stays the           *)
(* Directory named "/" that new() built.                                   *)
C19_ErrorsLeaveTheTree ==
    /\ \A path \in PathInputs :
        /\ \A content \in OptContents, is_directory \in BOOLEAN :
               LET r == create(tree, path, content, is_directory)
               IN  ~r.res.ok => r.tree = tree
        /\ \A new_name \in NewNames :
               LET r == rename(tree, path, new_name)
               IN  ~r.res.ok => r.tree = tree
        /\ \A target_path \in PathInputs :
               LET r == copy(tree, path, target_path)
               IN  ~r.res.ok => r.tree = tree
        /\ \A content \in Contents, append \in BOOLEAN :
               /\ LET r == write_file(tree, path, content, append)
                  IN  ~r.res.ok => r.tree = tree
               /\ LET r == update_file(tree, path, content, append)
                  IN  ~r.res.ok => r.tree = tree
        /\ \A permissions \in PermissionSets :
               LET r == change_permissions(tree, path, permissions)
               IN  ~r.res.ok => r.tree = tree
    /\ \A path \in PathInputs :
           split(path) = <<>> =>
               /\ \A content \in OptContents, is_directory \in BOOLEAN :
                      LET r == create(tree, path, content, is_directory)
                      IN  Fails(r.res, "InvalidPath") /\ r.tree = tree
               /\ LET r == delete(tree, path)
                  IN  Fails(r.res, "InvalidPath") /\ r.tree = tree
               /\ \A new_name \in NewNames :
                      LET r == rename(tree, path, new_name)
                      IN  Fails(r.res, "InvalidPath") /\ r.tree = tree
    /\ tree[<<>>] = new[<<>>]

(* a tree with two entries in the root, where a rename of one to the name  *)
(* of the other and a create of an existing path both return an error      *)
C19_Witness ==
    \E old_path \in PathInputs, new_name \in Names :
        /\ Len(split(old_path)) = 1
        /\ Exists(tree, split(old_path))
        /\ split(old_path) # <<new_name>>
        /\ Fails(rename(tree, old_path, new_name).res, "AlreadyExists")
        /\ Fails(create(tree, old_path, None, TRUE).res, "AlreadyExists")

====
